---- MODULE Spec2Model ----
(***************************************************************************)
(* A model of the array <-> polydata conversion layer of                   *)
(* meshparty/trimesh_vtk.py: the cell codec (numpy_to_vtk_cells,           *)
(* vtk_cellarray_to_shape), the assembly functions (numpy_rep_to_vtk,      *)
(* graph_to_vtk, trimesh_to_vtk), poly_to_mesh_components and              *)
(* remove_unused_verts.                                                    *)
(*                                                                         *)
(* The functions are pure, so a behaviour is one top-level call drawn in   *)
(* Init followed by the calls that consume its result.  Arrays are records *)
(* that carry their numpy shape, because the code branches on shape[1] and *)
(* on len() even when an array has no rows.  Index values stay far inside  *)
(* the 32-bit range, where the float64 hstack and the cast to the id type  *)
(* of numpy_to_vtk_cells are exact.                                        *)
(***************************************************************************)
EXTENDS Integers, Sequences, FiniteSets, TLC

VARIABLES
    call,          \* the function the behaviour starts with
    pc,            \* "start", "returned" or "raised"
    arg_vertices,  \* the vertex array handed to the first call
    arg_shapes,    \* its cell matrix (mat, edges, tris or faces)
    arg_edges,     \* trimesh_to_vtk's graph_edges, None elsewhere
    args,          \* the arguments of the latest call
    ret,           \* what the latest call returned or raised
    ncalls         \* calls of remove_unused_verts made so far

vars == <<call, pc, arg_vertices, arg_shapes, arg_edges, args, ret, ncalls>>

(***************************************************************************)
(* Bounds of the model.                                                    *)
(***************************************************************************)
MaxVerts == 2       \* vertex arrays have 0..MaxVerts rows
MaxCells == 2       \* rows of one call's cell matrices, taken together
MaxCalls == 2       \* remove_unused_verts is applied this often in a row

(***************************************************************************)
(* Cell widths the code tests for.                                         *)
(***************************************************************************)
EdgeWidth == 2      \* graph_to_vtk: edges.shape[1] != 2
TriWidth == 3       \* trimesh_to_vtk: tris.shape[1] != 3

Widths == (EdgeWidth - 1)..TriWidth
Indices == -1..1

(***************************************************************************)
(* Values: None, numpy arrays, exceptions.                                 *)
(***************************************************************************)
None == [kind |-> "None"]

\* a 2-d integer array of shape (m, k): rows is a sequence of m rows of k entries
NdArray(m, k, rows) == [kind |-> "ndarray", shape |-> <<m, k>>, rows |-> rows]

\* the empty python list / 1-d empty array that callers pass for "no edges"
EmptyList == [kind |-> "ndarray", shape |-> <<0>>, rows |-> <<>>]

Raise(type, text, value) ==
    [kind |-> "raise", type |-> type, text |-> text, value |-> value]

IsNone(x) == x.kind = "None"
IsRaise(x) == x.kind = "raise"

\* x is an (m, k) array of Indices with m <= n and k \in Widths
DrawMatrix(x, n) ==
    \E m \in 0..n, k \in Widths :
       \E rows \in [1..m -> [1..k -> Indices]] : x = NdArray(m, k, rows)
\* the Nx3 vertex arrays: n distinct points on the x axis, 0 <= n <= MaxVerts
Vertices(n) == [i \in 1..n |-> <<i - 1, 0, 0>>]
VertexArrays == {Vertices(n) : n \in 0..MaxVerts}

(***************************************************************************)
(* numpy helpers used by the source.                                       *)
(***************************************************************************)
RECURSIVE ravel(_)
\* ndarray.ravel(): the rows one after the other
ravel(rows) == IF rows = <<>> THEN <<>> ELSE Head(rows) \o ravel(Tail(rows))

\* the set of entries of a 2-d array
Entries(mat) == {mat.rows[r][c] : r \in 1..mat.shape[1], c \in 1..mat.shape[2]}

\* np.max of a non-empty array
np_max(mat) == CHOOSE v \in Entries(mat) : \A w \in Entries(mat) : w <= v

\* len(a): the first dimension
len(a) == a.shape[1]

RECURSIVE SortedSeq(_)
SortedSeq(S) ==
    IF S = {} THEN <<>>
    ELSE LET m == CHOOSE v \in S : \A w \in S : v <= w
         IN <<m>> \o SortedSeq(S \ {m})

\* np.unique of a 1-d array: its distinct values in ascending order
np_unique(a) == SortedSeq({a[i] : i \in 1..Len(a)})

\* np.searchsorted(a, v) with side='left': the number of entries of a below v
searchsorted(a, v) == Cardinality({i \in 1..Len(a) : a[i] < v})

(***************************************************************************)
(* The cell codec.                                                         *)
(***************************************************************************)
\* mutant: the rows prefixed with n_elems, not with n_dim
numpy_to_vtk_cells_prefix_n_elems(mat) ==
    LET n_elems == mat.shape[1]
        n_dim == mat.shape[2]
        hstack == [r \in 1..n_elems |-> <<n_elems>> \o mat.rows[r]]
    IN [kind |-> "vtkCellArray", ncells |-> n_elems, data |-> ravel(hstack)]

\* vtkCellArray.SetCells(n_elems, ids): the cell count and the legacy id array
numpy_to_vtk_cells(mat) ==
    LET n_elems == mat.shape[1]
        n_dim == mat.shape[2]
        hstack == [r \in 1..n_elems |-> <<n_dim>> \o mat.rows[r]]
    IN [kind |-> "vtkCellArray", ncells |-> n_elems, data |-> ravel(hstack)]

\* mutant: cellarray[:, :-1], the last column dropped and the prefix kept
vtk_cellarray_to_shape_drop_last(vtk_cellarray, ncells) ==
    IF ncells = 0
    THEN Raise("ZeroDivisionError", "division by zero", 0)
    ELSE LET cellarray == vtk_cellarray
             width == Len(cellarray) \div ncells
         IN IF ncells * width # Len(cellarray)
            THEN Raise("ValueError", "cannot reshape array", Len(cellarray))
            ELSE NdArray(ncells, IF width = 0 THEN 0 ELSE width - 1,
                         [r \in 1..ncells |->
                            [c \in 1..(width - 1) |->
                                cellarray[(r - 1) * width + c]]])

\* mutant: the id array cut to ncells * width entries before the reshape
vtk_cellarray_to_shape_truncating(vtk_cellarray, ncells) ==
    IF ncells = 0
    THEN Raise("ZeroDivisionError", "division by zero", 0)
    ELSE LET cellarray == vtk_cellarray
             width == Len(cellarray) \div ncells
         IN NdArray(ncells, IF width = 0 THEN 0 ELSE width - 1,
                    [r \in 1..ncells |->
                       [c \in 1..(width - 1) |->
                           cellarray[(r - 1) * width + c + 1]]])

\* vtk_cellarray is the id array (GetData()) of a cell array
vtk_cellarray_to_shape(vtk_cellarray, ncells) ==
    IF ncells = 0
    THEN Raise("ZeroDivisionError", "division by zero", 0)
    ELSE LET cellarray == vtk_cellarray
             width == Len(cellarray) \div ncells
         IN IF ncells * width # Len(cellarray)
            THEN Raise("ValueError", "cannot reshape array", Len(cellarray))
            ELSE NdArray(ncells, IF width = 0 THEN 0 ELSE width - 1,
                         [r \in 1..ncells |->
                            [c \in 1..(width - 1) |->
                                cellarray[(r - 1) * width + c + 1]]])

(***************************************************************************)
(* Assembly.                                                               *)
(***************************************************************************)
\* mutant: the len(edges) > 0 test left out, every 2-d edges array is encoded
numpy_rep_to_vtk_no_len_test(verts, cellmat, edges) ==
    LET mesh == [kind |-> "vtkPolyData", points |-> verts,
                 polys |-> None, lines |-> None]
        cells == numpy_to_vtk_cells(cellmat)
        vtk_edges == IF ~IsNone(edges) /\ Len(edges.shape) = 2
                     THEN numpy_to_vtk_cells(edges)
                     ELSE None
    IN [mesh |-> mesh, cells |-> cells, edges |-> vtk_edges]

numpy_rep_to_vtk(verts, cellmat, edges) ==
    LET mesh == [kind |-> "vtkPolyData", points |-> verts,
                 polys |-> None, lines |-> None]
        cells == numpy_to_vtk_cells(cellmat)
        vtk_edges == IF ~IsNone(edges)
                     THEN IF len(edges) > 0
                          THEN numpy_to_vtk_cells(edges)
                          ELSE None
                     ELSE None
    IN [mesh |-> mesh, cells |-> cells, edges |-> vtk_edges]

ZeroSize ==
    Raise("ValueError",
          "zero-size array to reduction operation maximum which has no identity", 0)

\* mutant: > for >= in the bounds test
graph_to_vtk_off_by_one(verts, edges) ==
    IF edges.shape[2] # EdgeWidth
    THEN Raise("ValueError", "graph_to_vtk() only works on edge lists", 0)
    ELSE IF Entries(edges) = {}
    THEN ZeroSize
    ELSE IF np_max(edges) > Len(verts)
    THEN Raise("ValueError", "edges refer to non existent vertices {}.",
               np_max(edges))
    ELSE LET rep == numpy_rep_to_vtk(verts, edges, None)
         IN [rep.mesh EXCEPT !.lines = rep.cells]

\* mutant: the cells set as polys, not as lines
graph_to_vtk_set_polys(verts, edges) ==
    IF edges.shape[2] # EdgeWidth
    THEN Raise("ValueError", "graph_to_vtk() only works on edge lists", 0)
    ELSE IF Entries(edges) = {}
    THEN ZeroSize
    ELSE IF np_max(edges) >= Len(verts)
    THEN Raise("ValueError", "edges refer to non existent vertices {}.",
               np_max(edges))
    ELSE LET rep == numpy_rep_to_vtk(verts, edges, None)
         IN [rep.mesh EXCEPT !.polys = rep.cells]

graph_to_vtk(verts, edges) ==
    IF edges.shape[2] # EdgeWidth
    THEN Raise("ValueError", "graph_to_vtk() only works on edge lists", 0)
    ELSE IF Entries(edges) = {}
    THEN ZeroSize
    ELSE IF np_max(edges) >= Len(verts)
    THEN Raise("ValueError", "edges refer to non existent vertices {}.",
               np_max(edges))
    ELSE LET rep == numpy_rep_to_vtk(verts, edges, None)
         IN [rep.mesh EXCEPT !.lines = rep.cells]

\* mutant: > for >= in the bounds test
trimesh_to_vtk_off_by_one(verts, tris, edges_in) ==
    IF tris.shape[2] # TriWidth
    THEN Raise("ValueError",
               "trimesh_to_vtk() only works on 3D TriMesh instances", 0)
    ELSE IF Entries(tris) = {}
    THEN ZeroSize
    ELSE IF np_max(tris) > Len(verts)
    THEN Raise("ValueError", "edges refer to non existent vertices {}.",
               np_max(tris))
    ELSE LET rep == numpy_rep_to_vtk(verts, tris, edges_in)
             mesh == [rep.mesh EXCEPT !.polys = rep.cells]
         IN IF ~IsNone(rep.edges)
            THEN [mesh EXCEPT !.lines = rep.edges]
            ELSE mesh

\* mutant: the bounds test made before the width test
trimesh_to_vtk_bounds_first(verts, tris, edges_in) ==
    IF Entries(tris) = {}
    THEN ZeroSize
    ELSE IF np_max(tris) >= Len(verts)
    THEN Raise("ValueError", "edges refer to non existent vertices {}.",
               np_max(tris))
    ELSE IF tris.shape[2] # TriWidth
    THEN Raise("ValueError",
               "trimesh_to_vtk() only works on 3D TriMesh instances", 0)
    ELSE LET rep == numpy_rep_to_vtk(verts, tris, edges_in)
             mesh == [rep.mesh EXCEPT !.polys = rep.cells]
         IN IF ~IsNone(rep.edges)
            THEN [mesh EXCEPT !.lines = rep.edges]
            ELSE mesh

trimesh_to_vtk(verts, tris, edges_in) ==
    IF tris.shape[2] # TriWidth
    THEN Raise("ValueError",
               "trimesh_to_vtk() only works on 3D TriMesh instances", 0)
    ELSE IF Entries(tris) = {}
    THEN ZeroSize
    ELSE IF np_max(tris) >= Len(verts)
    THEN Raise("ValueError", "edges refer to non existent vertices {}.",
               np_max(tris))
    ELSE LET rep == numpy_rep_to_vtk(verts, tris, edges_in)
             mesh == [rep.mesh EXCEPT !.polys = rep.cells]
         IN IF ~IsNone(rep.edges)
            THEN [mesh EXCEPT !.lines = rep.edges]
            ELSE mesh

\* GetNumberOfPolys / GetNumberOfLines: 0 while no cell array was set
NumberOfCells(cells) == IF IsNone(cells) THEN 0 ELSE cells.ncells

poly_to_mesh_components(poly) ==
    LET points == poly.points
        ntris == NumberOfCells(poly.polys)
        tris == IF ntris > 0
                THEN vtk_cellarray_to_shape(poly.polys.data, ntris)
                ELSE None
        nedges == NumberOfCells(poly.lines)
        edges == IF nedges > 0
                 THEN vtk_cellarray_to_shape(poly.lines.data, nedges)
                 ELSE None
    IN IF IsRaise(tris) THEN tris
       ELSE IF IsRaise(edges) THEN edges
       ELSE [kind |-> "tuple", points |-> points, tris |-> tris, edges |-> edges]

(***************************************************************************)
(* Compaction.                                                             *)
(***************************************************************************)
\* mutant: the vertex array returned unfiltered
remove_unused_verts_keep_all(verts, faces) ==
    LET used_verts == np_unique(ravel(faces.rows))
        n == Len(verts)
    IN IF \E i \in 1..Len(used_verts) : used_verts[i] >= n \/ used_verts[i] < -n
       THEN Raise("IndexError", "index is out of bounds for axis 0", n)
       ELSE LET new_verts == verts
                new_face == NdArray(faces.shape[1], faces.shape[2],
                                [r \in 1..faces.shape[1] |->
                                   [c \in 1..faces.shape[2] |->
                                      searchsorted(used_verts, faces.rows[r][c])]])
            IN [kind |-> "tuple", verts |-> new_verts, faces |-> new_face]

\* mutant: searchsorted with side='right', every rank one too high
remove_unused_verts_side_right(verts, faces) ==
    LET used_verts == np_unique(ravel(faces.rows))
        n == Len(verts)
    IN IF \E i \in 1..Len(used_verts) : used_verts[i] >= n \/ used_verts[i] < -n
       THEN Raise("IndexError", "index is out of bounds for axis 0", n)
       ELSE LET new_verts == [i \in 1..Len(used_verts) |->
                                 verts[(used_verts[i] % n) + 1]]
                new_face == NdArray(faces.shape[1], faces.shape[2],
                                [r \in 1..faces.shape[1] |->
                                   [c \in 1..faces.shape[2] |->
                                      searchsorted(used_verts, faces.rows[r][c]) + 1]])
            IN [kind |-> "tuple", verts |-> new_verts, faces |-> new_face]

\* mutant: the faces returned without reindexing
remove_unused_verts_no_reindex(verts, faces) ==
    LET used_verts == np_unique(ravel(faces.rows))
        n == Len(verts)
    IN IF \E i \in 1..Len(used_verts) : used_verts[i] >= n \/ used_verts[i] < -n
       THEN Raise("IndexError", "index is out of bounds for axis 0", n)
       ELSE LET new_verts == [i \in 1..Len(used_verts) |->
                                 verts[(used_verts[i] % n) + 1]]
            IN [kind |-> "tuple", verts |-> new_verts, faces |-> faces]

remove_unused_verts(verts, faces) ==
    LET used_verts == np_unique(ravel(faces.rows))
        n == Len(verts)
    IN IF \E i \in 1..Len(used_verts) : used_verts[i] >= n \/ used_verts[i] < -n
       THEN Raise("IndexError", "index is out of bounds for axis 0", n)
       ELSE LET new_verts == [i \in 1..Len(used_verts) |->
                                 verts[(used_verts[i] % n) + 1]]
                new_face == NdArray(faces.shape[1], faces.shape[2],
                                [r \in 1..faces.shape[1] |->
                                   [c \in 1..faces.shape[2] |->
                                      searchsorted(used_verts, faces.rows[r][c])]])
            IN [kind |-> "tuple", verts |-> new_verts, faces |-> new_face]

(***************************************************************************)
(* The state machine: one call drawn in Init, then the calls that consume  *)
(* its result.                                                             *)
(***************************************************************************)
PcAfter(r) == IF IsRaise(r) THEN "raised" ELSE "returned"

\* no call made yet
Start ==
    /\ pc = "start"
    /\ args = [fn |-> "None"]
    /\ ret = None
    /\ ncalls = 0

InitCodec ==
    /\ Start
    /\ call = "numpy_to_vtk_cells"
    /\ arg_vertices = <<>>
    /\ DrawMatrix(arg_shapes, MaxCells)
    /\ arg_edges = None

InitGraph ==
    /\ Start
    /\ call = "graph_to_vtk"
    /\ arg_vertices \in VertexArrays
    /\ DrawMatrix(arg_shapes, MaxCells)
    /\ arg_edges = None

InitTrimesh ==
    /\ Start
    /\ call = "trimesh_to_vtk"
    /\ arg_vertices \in VertexArrays
    /\ DrawMatrix(arg_shapes, MaxCells)
    /\ \/ arg_edges \in {None, EmptyList}
       \/ DrawMatrix(arg_edges, MaxCells - len(arg_shapes))

InitCompact ==
    /\ Start
    /\ call = "remove_unused_verts"
    /\ arg_vertices \in VertexArrays
    /\ DrawMatrix(arg_shapes, MaxCells)
    /\ arg_edges = None

Init == InitCodec \/ InitGraph \/ InitTrimesh \/ InitCompact

Inputs == <<call, arg_vertices, arg_shapes, arg_edges>>

NumpyToVtkCells ==
    /\ pc = "start"
    /\ call = "numpy_to_vtk_cells"
    /\ args' = [fn |-> "numpy_to_vtk_cells", mat |-> arg_shapes]
    /\ ret' = numpy_to_vtk_cells(arg_shapes)
    /\ pc' = "returned"
    /\ UNCHANGED <<Inputs, ncalls>>

VtkCellarrayToShape ==
    /\ pc = "returned"
    /\ ret.kind = "vtkCellArray"
    /\ \E ncells \in 0..(MaxCells + 1) :
          LET r == vtk_cellarray_to_shape(ret.data, ncells)
          IN /\ args' = [fn |-> "vtk_cellarray_to_shape",
                       vtk_cellarray |-> ret.data, ncells |-> ncells]
             /\ ret' = r
             /\ pc' = PcAfter(r)
    /\ UNCHANGED <<Inputs, ncalls>>

GraphToVtk ==
    /\ pc = "start"
    /\ call = "graph_to_vtk"
    /\ LET r == graph_to_vtk(arg_vertices, arg_shapes)
       IN /\ args' = [fn |-> "graph_to_vtk", vertices |-> arg_vertices,
                      edges |-> arg_shapes]
          /\ ret' = r
          /\ pc' = PcAfter(r)
    /\ UNCHANGED <<Inputs, ncalls>>

TrimeshToVtk ==
    /\ pc = "start"
    /\ call = "trimesh_to_vtk"
    /\ LET r == trimesh_to_vtk(arg_vertices, arg_shapes, arg_edges)
       IN /\ args' = [fn |-> "trimesh_to_vtk", vertices |-> arg_vertices,
                      tris |-> arg_shapes, graph_edges |-> arg_edges]
          /\ ret' = r
          /\ pc' = PcAfter(r)
    /\ UNCHANGED <<Inputs, ncalls>>

PolyToMeshComponents ==
    /\ pc = "returned"
    /\ ret.kind = "vtkPolyData"
    /\ LET r == poly_to_mesh_components(ret)
       IN /\ args' = [fn |-> "poly_to_mesh_components", poly |-> ret]
          /\ ret' = r
          /\ pc' = PcAfter(r)
    /\ UNCHANGED <<Inputs, ncalls>>

\* the first call takes the arrays drawn in Init, a later one the arrays
\* the call before it returned
RemoveUnusedVerts ==
    /\ call = "remove_unused_verts"
    /\ pc \in {"start", "returned"}
    /\ ncalls < MaxCalls
    /\ LET a == IF ncalls = 0
                THEN [fn |-> "remove_unused_verts",
                      verts |-> arg_vertices, faces |-> arg_shapes]
                ELSE [fn |-> "remove_unused_verts",
                      verts |-> ret.verts, faces |-> ret.faces]
           r == remove_unused_verts(a.verts, a.faces)
       IN /\ args' = a
          /\ ret' = r
          /\ pc' = PcAfter(r)
    /\ ncalls' = ncalls + 1
    /\ UNCHANGED Inputs

Next ==
    \/ NumpyToVtkCells
    \/ VtkCellarrayToShape
    \/ GraphToVtk
    \/ TrimeshToVtk
    \/ PolyToMeshComponents
    \/ RemoveUnusedVerts

Spec == Init /\ [][Next]_vars

(***************************************************************************)
(* The same machine started in one function only.                          *)
(***************************************************************************)
NextCodec == NumpyToVtkCells \/ VtkCellarrayToShape
SpecCodec == InitCodec /\ [][NextCodec]_vars

NextGraph == GraphToVtk \/ PolyToMeshComponents
SpecGraph == InitGraph /\ [][NextGraph]_vars

NextTrimesh == TrimeshToVtk \/ PolyToMeshComponents
SpecTrimesh == InitTrimesh /\ [][NextTrimesh]_vars

NextCompact == RemoveUnusedVerts
SpecCompact == InitCompact /\ [][NextCompact]_vars

(***************************************************************************)
(* Vocabulary of the properties.                                           *)
(***************************************************************************)
\* the latest call was a call of f
After(f) == args.fn = f

\* the ValueError of the two width tests
DimensionError(r) ==
    /\ IsRaise(r)
    /\ r.type = "ValueError"
    /\ r.text \in {"graph_to_vtk() only works on edge lists",
                   "trimesh_to_vtk() only works on 3D TriMesh instances"}

\* the ValueError of the two bounds tests; r.value is the index in its message
IndexRangeError(r) ==
    /\ IsRaise(r)
    /\ r.type = "ValueError"
    /\ r.text = "edges refer to non existent vertices {}."

NonNegative(mat) == \A v \in Entries(mat) : v >= 0

\* every entry of mat is an index into an array of n vertices
InRange(mat, n) == \A v \in Entries(mat) : 0 <= v /\ v < n

\* a k-wide matrix with at least one row and every index in range
ValidCells(mat, n, k) ==
    /\ Len(mat.shape) = 2
    /\ mat.shape[2] = k
    /\ mat.shape[1] >= 1
    /\ InRange(mat, n)

RECURSIVE LegacyIndices(_)
\* the vertex indices of a legacy id array: a count n, n indices, a count, ...
LegacyIndices(data) ==
    IF data = <<>> THEN {}
    ELSE LET n == data[1]
         IN {data[i] : i \in 2..(n + 1)}
              \cup LegacyIndices(SubSeq(data, n + 2, Len(data)))

\* the vertex indices a cell array of a polydata stores
CellIndices(cells) == IF IsNone(cells) THEN {} ELSE LegacyIndices(cells.data)

\* the number of members of S below v
Rank(S, v) == Cardinality({w \in S : w < v})

(***************************************************************************)
(* C1: round trip of the codec.  Decoding the encoding of an (M, K)        *)
(* matrix, M >= 1, K >= 1, no entry negative, with cell count M returns    *)
(* the matrix.                                                             *)
(***************************************************************************)
RoundTrip ==
    ( /\ After("vtk_cellarray_to_shape")
      /\ args.ncells = arg_shapes.shape[1]
      /\ arg_shapes.shape[1] >= 1
      /\ arg_shapes.shape[2] >= 1
      /\ NonNegative(arg_shapes) )
    => ret = arg_shapes

RoundTripWitness ==
    /\ After("vtk_cellarray_to_shape")
    /\ args.ncells = 2
    /\ arg_shapes.shape = <<2, 2>>
    /\ NonNegative(arg_shapes)
    /\ arg_shapes.rows[1] # arg_shapes.rows[2]
    /\ arg_shapes.rows[1][1] # arg_shapes.rows[1][2]
    /\ ret.kind = "ndarray"

(***************************************************************************)
(* C2: bounds enforcement of trimesh_to_vtk.  With 3-wide tris whose       *)
(* largest index is >= the number of vertices the call raises the bounds   *)
(* error, the message carries that largest index, nothing is returned.     *)
(***************************************************************************)
BoundsEnforcement ==
    ( /\ After("trimesh_to_vtk")
      /\ arg_shapes.shape[2] = TriWidth
      /\ Entries(arg_shapes) # {}
      /\ np_max(arg_shapes) >= Len(arg_vertices) )
    => /\ pc = "raised"
       /\ IndexRangeError(ret)
       /\ ret.value = np_max(arg_shapes)

BoundsEnforcementWitness ==
    /\ After("trimesh_to_vtk")
    /\ arg_shapes.shape = <<2, TriWidth>>
    /\ Len(arg_vertices) = 1
    /\ np_max(arg_shapes) = 1
    /\ pc = "raised"

(***************************************************************************)
(* C3: edge validation of trimesh_to_vtk.  With valid tris and a non-empty *)
(* graph_edges the call raises the width error when graph_edges is not     *)
(* 2-wide and the bounds error when it is 2-wide with an index >= the      *)
(* number of vertices.                                                     *)
(***************************************************************************)
EdgeValidation ==
    ( /\ After("trimesh_to_vtk")
      /\ ValidCells(arg_shapes, Len(arg_vertices), TriWidth)
      /\ ~IsNone(arg_edges)
      /\ len(arg_edges) > 0 )
    => /\ arg_edges.shape[2] # EdgeWidth => DimensionError(ret)
       /\ ( /\ arg_edges.shape[2] = EdgeWidth
            /\ np_max(arg_edges) >= Len(arg_vertices) ) => IndexRangeError(ret)

(***************************************************************************)
(* C4: index invariant of an assembled mesh.  Every index stored in the    *)
(* polys and in the lines of a returned polydata is in [0, V), V the       *)
(* number of its points.                                                   *)
(***************************************************************************)
IndexInvariant ==
    ret.kind = "vtkPolyData" =>
        \A v \in CellIndices(ret.polys) \cup CellIndices(ret.lines) :
            0 <= v /\ v < Len(ret.points)

(***************************************************************************)
(* C5: compaction result.  With every index of faces in range, new_verts   *)
(* is the rows of verts at the distinct indices of faces in ascending      *)
(* order, and every entry of new_face is the rank of the input entry among *)
(* those indices.                                                          *)
(***************************************************************************)
CompactionResult ==
    ( /\ ncalls = 1
      /\ InRange(arg_shapes, Len(arg_vertices)) )
    => /\ ret.kind = "tuple"
       /\ LET used == Entries(arg_shapes)
          IN /\ Len(ret.verts) = Cardinality(used)
             /\ \A u \in used : ret.verts[Rank(used, u) + 1] = arg_vertices[u + 1]
             /\ ret.faces.shape = arg_shapes.shape
             /\ \A r \in 1..arg_shapes.shape[1], c \in 1..arg_shapes.shape[2] :
                   ret.faces.rows[r][c] = Rank(used, arg_shapes.rows[r][c])

\* two vertices, one face on vertex 1 only: vertex 0 is dropped
CompactionResultWitness ==
    /\ ncalls = 1
    /\ arg_vertices = <<(<<0, 0, 0>>), (<<1, 0, 0>>)>>
    /\ arg_shapes = NdArray(1, 3, <<(<<1, 1, 1>>)>>)
    /\ ret.kind = "tuple"
    /\ ret.verts = <<(<<1, 0, 0>>)>>
    /\ ret.faces = NdArray(1, 3, <<(<<0, 0, 0>>)>>)

(***************************************************************************)
(* C6: compaction invariant.  Whatever the input, the returned faces have  *)
(* the shape of the input faces, every entry is in [0, len(new_verts)),    *)
(* and every index of [0, len(new_verts)) occurs in them.                  *)
(***************************************************************************)
CompactionInvariant ==
    ( /\ ncalls >= 1
      /\ ret.kind = "tuple" )
    => /\ ret.faces.shape = args.faces.shape
       /\ \A v \in Entries(ret.faces) : 0 <= v /\ v < Len(ret.verts)
       /\ \A i \in 0..(Len(ret.verts) - 1) : i \in Entries(ret.faces)

CompactionInvariantWitness ==
    /\ ncalls = 1
    /\ ret.kind = "tuple"
    /\ arg_shapes.shape = <<2, 2>>
    /\ -1 \in Entries(arg_shapes)
    /\ Len(ret.verts) = 2

(***************************************************************************)
(* C7: idempotence of compaction.  remove_unused_verts applied to what it  *)
(* returned returns the same two arrays.                                   *)
(***************************************************************************)
Idempotence ==
    ncalls >= 2 =>
        /\ ret.kind = "tuple"
        /\ ret.verts = args.verts
        /\ ret.faces = args.faces

\* the second call, after a first one that dropped a vertex and reindexed
IdempotenceWitness ==
    /\ ncalls = 2
    /\ ret.kind = "tuple"
    /\ Len(ret.verts) < Len(arg_vertices)
    /\ ret.faces # arg_shapes

(***************************************************************************)
(* C8: failure modes of graph_to_vtk.  With a non-empty edges matrix the   *)
(* call raises the width error when edges is not 2-wide, the bounds error  *)
(* when it is 2-wide and its largest index is >= the number of vertices,   *)
(* and returns nothing in both cases.                                      *)
(***************************************************************************)
GraphFailureModes ==
    ( /\ After("graph_to_vtk")
      /\ len(arg_shapes) >= 1 )
    => /\ arg_shapes.shape[2] # EdgeWidth
            => (pc = "raised" /\ DimensionError(ret))
       /\ ( /\ arg_shapes.shape[2] = EdgeWidth
            /\ np_max(arg_shapes) >= Len(arg_vertices) )
            => (pc = "raised" /\ IndexRangeError(ret))

GraphFailureModesWitness ==
    /\ After("graph_to_vtk")
    /\ arg_shapes.shape = <<2, EdgeWidth>>
    /\ Len(arg_vertices) = 1
    /\ np_max(arg_shapes) = 1
    /\ pc = "raised"

(***************************************************************************)
(* C9: shape enforcement on tris.  Whatever the vertices and graph_edges,  *)
(* trimesh_to_vtk raises the width error for tris that are not 3-wide.     *)
(***************************************************************************)
FacesShapeEnforcement ==
    ( /\ After("trimesh_to_vtk")
      /\ arg_shapes.shape[2] # TriWidth )
    => (pc = "raised" /\ DimensionError(ret))

\* 2-wide tris with an index out of range, graph_edges given
FacesShapeEnforcementWitness ==
    /\ After("trimesh_to_vtk")
    /\ arg_shapes.shape = <<1, 2>>
    /\ np_max(arg_shapes) >= Len(arg_vertices)
    /\ ~IsNone(arg_edges)
    /\ len(arg_edges) = 1
    /\ pc = "raised"

(***************************************************************************)
(* C10: empty-edges normalization.  With valid vertices and tris,          *)
(* trimesh_to_vtk called with an empty graph_edges returns the mesh it     *)
(* returns with graph_edges absent, no lines are set, and                  *)
(* poly_to_mesh_components of it returns edges = None.                     *)
(***************************************************************************)
EmptyEdgesNormalization ==
    ( /\ call = "trimesh_to_vtk"
      /\ ValidCells(arg_shapes, Len(arg_vertices), TriWidth)
      /\ ~IsNone(arg_edges)
      /\ len(arg_edges) = 0 )
    => /\ After("trimesh_to_vtk") =>
            /\ ret.kind = "vtkPolyData"
            /\ IsNone(ret.lines)
            /\ ret = trimesh_to_vtk(arg_vertices, arg_shapes, None)
       /\ After("poly_to_mesh_components") =>
            /\ ret.kind = "tuple"
            /\ IsNone(ret.edges)
            /\ ret = poly_to_mesh_components(
                        trimesh_to_vtk(arg_vertices, arg_shapes, None))

EmptyEdgesNormalizationWitness ==
    /\ call = "trimesh_to_vtk"
    /\ After("poly_to_mesh_components")
    /\ arg_shapes.shape = <<2, TriWidth>>
    /\ InRange(arg_shapes, Len(arg_vertices))
    /\ arg_edges = NdArray(0, EdgeWidth, <<>>)
    /\ IsNone(ret.edges)

(***************************************************************************)
(* C11: end-to-end round trip.  With a non-empty 2-wide edges matrix whose *)
(* indices are all in range graph_to_vtk returns a polydata, and           *)
(* poly_to_mesh_components of it returns the vertices, the edges matrix    *)
(* and tris = None.                                                        *)
(***************************************************************************)
EndToEnd ==
    ( /\ call = "graph_to_vtk"
      /\ ValidCells(arg_shapes, Len(arg_vertices), EdgeWidth) )
    => /\ After("graph_to_vtk") => ret.kind = "vtkPolyData"
       /\ After("poly_to_mesh_components") =>
            /\ ret.kind = "tuple"
            /\ ret.points = arg_vertices
            /\ ret.edges = arg_shapes
            /\ IsNone(ret.tris)

EndToEndWitness ==
    /\ call = "graph_to_vtk"
    /\ After("poly_to_mesh_components")
    /\ Len(arg_vertices) = 2
    /\ arg_shapes.shape = <<2, EdgeWidth>>
    /\ InRange(arg_shapes, 2)
    /\ arg_shapes.rows[1] # arg_shapes.rows[2]
    /\ arg_shapes.rows[1][1] # arg_shapes.rows[1][2]
    /\ ret.kind = "tuple"

\* the ValueError of ndarray.reshape
ShapeError(r) ==
    /\ IsRaise(r)
    /\ r.type = "ValueError"
    /\ r.text = "cannot reshape array"

EncodingFormat ==
    After("numpy_to_vtk_cells") =>
        LET M == arg_shapes.shape[1]
            K == arg_shapes.shape[2]
        IN /\ pc = "returned"
           /\ ret.kind = "vtkCellArray"
           /\ ret.ncells = M
           /\ Len(ret.data) = M * (K + 1)
           /\ \A r \in 0..(M - 1) :
                 /\ ret.data[r * (K + 1) + 1] = K
                 /\ \A c \in 1..K :
                       ret.data[r * (K + 1) + 1 + c] = arg_shapes.rows[r + 1][c]

\* two triangles, one index negative: encoded all the same
EncodingFormatWitness ==
    /\ After("numpy_to_vtk_cells")
    /\ arg_shapes.shape = <<2, TriWidth>>
    /\ -1 \in Entries(arg_shapes)
    /\ arg_shapes.rows[1] # arg_shapes.rows[2]
    /\ Len(ret.data) = 8

(***************************************************************************)
(* C14: failures of assembly.  graph_to_vtk and trimesh_to_vtk raise only  *)
(* the width error or the bounds error, and return a polydata whenever the *)
(* cell matrix has the width tested for (2 for edges, 3 for tris) and no   *)
(* index >= the number of vertices, a matrix of zero rows included.        *)
(***************************************************************************)
AssemblyFailures ==
    (After("graph_to_vtk") \/ After("trimesh_to_vtk")) =>
        /\ IsRaise(ret) => (DimensionError(ret) \/ IndexRangeError(ret))
        /\ ( /\ arg_shapes.shape[2] = (IF After("graph_to_vtk")
                                       THEN EdgeWidth ELSE TriWidth)
             /\ \A v \in Entries(arg_shapes) : v < Len(arg_vertices) )
           => (pc = "returned" /\ ret.kind = "vtkPolyData")

====
